---- MODULE Spec2Model ----
(***************************************************************************)
(* ELOWA OPS: depot day-state lifecycle (operator page), the record store  *)
(* it writes to, and the cash reconciliation of the admin dashboards.      *)
(*                                                                         *)
(* Spec      one operator page (src/app/page.tsx, src/unnamed/part_000)    *)
(*           followed step by step, the record store, and the inserts of    *)
(*           every other operator's page arriving at the store.            *)
(* SpecDash  the admin dashboards' derivations applied to one record.      *)
(* SpecForm  the close forms of the two operator pages applied to what an  *)
(*           operator has counted and typed.                               *)
(* SpecTrust computeTrustScore applied to one TrustScoreInput.             *)
(* SpecSignals  the governance dashboard's compliance signals of a depot.  *)
(* SpecSales the dashboards' sales aggregates of a series of days.         *)
(* SpecClose the close form of src/unnamed/part_000 while it is edited.    *)
(* SpecFns   computeSystemHealth and computeInventorySignals applied to    *)
(*           one input.                                                    *)
(***************************************************************************)
EXTENDS Integers, Sequences, FiniteSets, TLC

(* ------------------------------ bounds -------------------------------- *)
MaxInflight == 2       \* requests the page may have in flight at once
NumOperators == 1      \* operators of OPERATORS that log in
MaxOpening == 20       \* amounts of SpecDash, in CFA
MaxSales == 2
MaxMobile == 1
MaxRestock == 3
MaxClosing == 23
MaxLateOpens == 3      \* counts of SpecTrust
MaxMissedCloses == 3
MaxVarianceDays == 5
MaxInactiveDays == 30
MaxRecent == 3         \* SpecSignals: most recent days of a depot, drawn freely
MaxOlder == 30         \* SpecSignals: clean days before them, about this many

(* ----------------------------- constants ------------------------------ *)
DEPOTS == <<"Benardkope", "Adetikope">>
OPERATORS == <<"Mohamed", "Mona", "Sarata">>
CASH_REVIEW_TOLERANCE_PCT == 5
UNIQUE_VIOLATION == "23505"
FOREIGN_KEY_VIOLATION == "23503"
OTHER_ERROR == "fetch failed"   \* any error whose code is neither of the two

Null == "null"
Depot == {DEPOTS[i] : i \in 1..Len(DEPOTS)}
BusinessDate == "2026-01-09"   \* new Date().toISOString().slice(0, 10)
Operator == {OPERATORS[i] : i \in 1..NumOperators}
Key == Depot \X {BusinessDate}

VARIABLES
  depot_day_open,   \* store table: key -> sequence of rows
  depot_day_close,  \* store table: key -> sequence of rows
  screen,           \* useState<Screen>
  depot,            \* useState<Depot | null>
  operator,         \* useState<Operator | null>
  openData,         \* useState<OpenData | null>
  depotStates,      \* useState<Record<Depot, DepotDayState | null>>
  inflight,         \* requests awaiting the store or their continuation
  loader,           \* the running loadAllDepotStates effect, <<>> when done
  ev,               \* SpecDash: the DepotDayEvent the dashboard holds
  row,              \* SpecDash: the depot_day_state row with the same amounts
  review,           \* SpecDash: what the dashboards derive from ev / row
  form,             \* SpecForm: what the operator counted and typed at close
  candidates,       \* SpecForm: <<restockCandidates>> once the form rendered
  inserted,         \* SpecForm: the row the form's onSubmit inserted
  trustInput,       \* SpecTrust: a TrustScoreInput
  trustScore,       \* SpecTrust: <<computeTrustScore(trustInput)>>
  history,          \* SpecSignals: rawData of one depot of latestDepots
  signals,          \* SpecSignals: what the signals memo derives for it
  salesData,        \* SpecSales: the dashboard's data
  metrics,          \* SpecSales: the aggregates derived from it
  call,             \* SpecFns: a signal function and the input it is given
  result            \* SpecFns: <<what the function returns>>

storeVars == <<depot_day_open, depot_day_close>>
pageVars == <<screen, depot, operator, openData, depotStates, inflight, loader>>
dashVars == <<ev, row, review>>
formVars == <<form, candidates, inserted>>
trustVars == <<trustInput, trustScore>>
signalVars == <<history, signals>>
salesVars == <<salesData, metrics>>
fnVars == <<call, result>>
sideVars == <<dashVars, formVars, trustVars, signalVars, salesVars, fnVars>>
vars == <<depot_day_open, depot_day_close, screen, depot, operator,
          openData, depotStates, inflight, loader,
          ev, row, review, form, candidates, inserted, trustInput, trustScore,
          history, signals, salesData, metrics, call, result>>

(* ------------------- the record store (collaborator) ------------------ *)
(* A table maps a (depot, business date) key to the rows stored under it,  *)
(* in insertion order.                                                     *)
EmptyTable == [k \in Key |-> <<>>]

KeyOf(r) == <<r.depot_id, r.business_date>>

\* An optional record is <<>> (null) or <<r>>.
\* .eq("depot_id", d).eq("business_date", n).maybeSingle(): the row when
\* exactly one matches, no data otherwise.
maybeSingle(tbl, d, n) ==
  IF Len(tbl[<<d, n>>]) = 1 THEN tbl[<<d, n>>] ELSE <<>>

\* An insert into a depot_day_open that has no unique constraint on its key.
InsertOpen_noUnique(opens, r) ==
  [error |-> Null, tbl |-> [opens EXCEPT ![KeyOf(r)] = Append(@, r)]]

\* insert into depot_day_open: rejected with 23505 when the key is taken.
InsertOpen(opens, r) ==
  IF Len(opens[KeyOf(r)]) > 0
  THEN [error |-> UNIQUE_VIOLATION, tbl |-> opens]
  ELSE [error |-> Null, tbl |-> [opens EXCEPT ![KeyOf(r)] = Append(@, r)]]

\* An insert into a depot_day_close that has no foreign key to depot_day_open.
InsertClose_noForeignKey(opens, closes, r) ==
  IF Len(closes[KeyOf(r)]) > 0
  THEN [error |-> UNIQUE_VIOLATION, tbl |-> closes]
  ELSE [error |-> Null, tbl |-> [closes EXCEPT ![KeyOf(r)] = Append(@, r)]]

\* insert into depot_day_close: rejected with 23505 when the key is taken,
\* with 23503 when no open row has the key.
InsertClose(opens, closes, r) ==
  IF Len(closes[KeyOf(r)]) > 0
  THEN [error |-> UNIQUE_VIOLATION, tbl |-> closes]
  ELSE IF Len(opens[KeyOf(r)]) = 0
  THEN [error |-> FOREIGN_KEY_VIOLATION, tbl |-> closes]
  ELSE [error |-> Null, tbl |-> [closes EXCEPT ![KeyOf(r)] = Append(@, r)]]

\* upsert: replaces the rows of the key (the page never asks for it).
Upsert(tbl, r) == [error |-> Null, tbl |-> [tbl EXCEPT ![KeyOf(r)] = <<r>>]]

(* ------------------------- the operator page --------------------------- *)
\* Number(s) for the strings an <input type="number"> yields here.
Number(s) ==
  CASE s = "" -> 0
    [] s = "0" -> 0
    [] s = "1" -> 1
    [] s = "2" -> 2
    [] s = "3" -> 3
    [] s = "-1" -> 0 - 1

\* What the operator types into OpenForm / CloseForm.
OpenCashTyped == {"", "2"}
OpenFormData == [cash : OpenCashTyped]
CloseFormData ==
  [cash : {"", "1"}, mobile : {"1"}, closingCash : {"3"},
   restockCash : {"", "1"}, restockSkus : {{}, {"oil5"}}]

\* OpenForm: const valid = cash !== "" && every inventory value !== ""
OpenFormValid(data) == data.cash # ""

\* CloseForm: const valid = cash, mobile, closingCash !== "" && (!restockSelected || restockCash !== "")
CloseFormValid(data) ==
  /\ data.cash # ""
  /\ data.mobile # ""
  /\ data.closingCash # ""
  /\ (data.restockSkus = {} \/ data.restockCash # "")

\* The row OpenForm's onSubmit inserts.
OpenInsertRow(d, o, n, data) ==
  [depot_id |-> d, operator_name |-> o, business_date |-> n,
   opening_cash_cfa |-> Number(data.cash)]

\* The row CloseForm's onSubmit inserts.
CloseInsertRow(d, o, n, data) ==
  [depot_id |-> d, operator_name |-> o, business_date |-> n,
   cash_sales_total_cfa |-> Number(data.cash),
   mobile_sales_total_cfa |-> Number(data.mobile),
   closing_cash_cfa |-> Number(data.closingCash),
   restock_cash_used |->
     IF Cardinality(data.restockSkus) # 0 THEN Number(data.restockCash) ELSE 0,
   restock_skus |-> data.restockSkus]

\* A request in flight: what was sent, plus the store's answer. depot and date
\* are the values the handler's closure captured.
Request(kind, op, d, n, r, data, then) ==
  [kind |-> kind, op |-> op, depot |-> d, date |-> n, row |-> r, data |-> data,
   then |-> then, error |-> Null, result |-> <<>>]

\* The store's answer to a request: the request with its error or data, and
\* the tables afterwards.
Serve(req, opens, closes) ==
  CASE req.kind = "insertOpen" ->
         LET res == IF req.op = "upsert" THEN Upsert(opens, req.row[1])
                    ELSE InsertOpen(opens, req.row[1])
         IN [req |-> [req EXCEPT !.error = res.error], opens |-> res.tbl, closes |-> closes]
    [] req.kind = "insertClose" ->
         LET res == IF req.op = "upsert" THEN Upsert(closes, req.row[1])
                    ELSE InsertClose(opens, closes, req.row[1])
         IN [req |-> [req EXCEPT !.error = res.error], opens |-> opens, closes |-> res.tbl]
    [] req.kind = "selectOpen" ->
         [req |-> [req EXCEPT !.result = maybeSingle(opens, req.depot, req.date)],
          opens |-> opens, closes |-> closes]

\* A loadAllDepotStates run: its businessDate, the depot being read, the read
\* it is about to make, and its local `states`.
NewLoader(n) ==
  [date |-> n, i |-> 1, phase |-> "open", openRow |-> <<>>,
   states |-> [d \in Depot |-> "NOT_OPENED"]]

\* The page sends a request and awaits it. The store serves a request when it
\* is sent (a send touches nothing another step reads, so serving it later is
\* the same run with the send moved); the handler resumes in a later step.
MaySend == Len(inflight) < MaxInflight

Send(req) ==
  LET s == Serve(req, depot_day_open, depot_day_close)
  IN /\ inflight' = Append(inflight, s.req)
     /\ depot_day_open' = s.opens
     /\ depot_day_close' = s.closes

\* A failure reported for an insert that the store has carried out.
SendFailed_stored(req) ==
  /\ inflight' = Append(inflight, [req EXCEPT !.error = OTHER_ERROR])
  /\ depot_day_open' = Serve(req, depot_day_open, depot_day_close).opens
  /\ depot_day_close' = Serve(req, depot_day_open, depot_day_close).closes

\* The request fails before the store acts on it: the page gets an error
\* that carries neither code, and nothing is written.
SendFailed(req) ==
  /\ inflight' = Append(inflight, [req EXCEPT !.error = OTHER_ERROR])
  /\ UNCHANGED storeVars

RemoveAt(s, i) == SubSeq(s, 1, i - 1) \o SubSeq(s, i + 1, Len(s))

InitPage ==
  /\ screen = "login"
  /\ depot = Null
  /\ operator = Null
  /\ openData = <<>>
  /\ depotStates = [d \in Depot |-> Null]
  /\ inflight = <<>>
  /\ loader = <<NewLoader(BusinessDate)>>

InitStore ==
  /\ depot_day_open = EmptyTable
  /\ depot_day_close = EmptyTable

\* A load whose caller does nothing after it.
LoadOpenRequest_noContinuation(d, n, then) ==
  Request("selectOpen", "select", d, n, <<>>, <<>>, Null)

\* The request loadDepotOpenData sends; `then` is what its caller does after it.
LoadOpenRequest(d, n, then) == Request("selectOpen", "select", d, n, <<>>, <<>>, then)

(* handleDepotSelect: the depot <select> of the login screen. *)
SelectDepot(d) ==
  /\ screen = "login"
  /\ d # depot
  /\ depotStates[d] = "OPENED" => MaySend
  /\ depot' = d
  /\ openData' = <<>>
  /\ IF depotStates[d] = "OPENED"
     THEN Send(LoadOpenRequest(d, BusinessDate, Null))
     ELSE UNCHANGED <<inflight, storeVars>>
  /\ UNCHANGED <<screen, operator, depotStates, loader, sideVars>>

(* setOperator: the operator <select> of the login screen. *)
SelectOperator(o) ==
  /\ screen = "login"
  /\ o # operator
  /\ operator' = o
  /\ UNCHANGED <<storeVars, screen, depot, openData, depotStates, inflight, loader, sideVars>>

\* getActionButton: the screen the login button leads to, Null when there is
\* no button or it is disabled.
getActionButton(dep, op, states) ==
  IF dep = Null \/ op = Null THEN Null
  ELSE CASE states[dep] = "NOT_OPENED" -> "open"
         [] states[dep] = "OPENED" -> "status"
         [] OTHER -> Null

(* The login screen's action button. *)
ActionButton ==
  /\ screen = "login"
  /\ getActionButton(depot, operator, depotStates) # Null
  /\ screen' = getActionButton(depot, operator, depotStates)
  /\ UNCHANGED <<storeVars, depot, operator, openData, depotStates, inflight, loader, sideVars>>

(* backToLogin: the header's Back button and the final screen's button. *)
backToLogin ==
  /\ screen # "login"
  /\ screen' = "login"
  /\ depot' = Null
  /\ operator' = Null
  /\ openData' = <<>>
  /\ UNCHANGED <<storeVars, depotStates, inflight, loader, sideVars>>

(* The status screen's Close Depot button. *)
CloseDepotButton ==
  /\ screen = "status"
  /\ openData # <<>> /\ depot # Null /\ operator # Null
  /\ screen' = "close"
  /\ UNCHANGED <<storeVars, depot, operator, openData, depotStates, inflight, loader, sideVars>>

\* The request OpenForm's onSubmit sends.
OpenRequest(d, o, n, data) ==
  Request("insertOpen", "insert", d, n, <<OpenInsertRow(d, o, n, data)>>, <<data>>, Null)

\* A CloseForm onSubmit that calls .upsert(...) where the page calls .insert(...).
CloseRequest_upsert(d, o, n, data) ==
  Request("insertClose", "upsert", d, n, <<CloseInsertRow(d, o, n, data)>>, <<>>, Null)

\* The request CloseForm's onSubmit sends.
CloseRequest(d, o, n, data) ==
  Request("insertClose", "insert", d, n, <<CloseInsertRow(d, o, n, data)>>, <<>>, Null)

(* OpenForm's Confirm Opening button: onSubmit up to its await. *)
SubmitOpen(data) ==
  /\ screen = "open" /\ depot # Null /\ operator # Null
  /\ OpenFormValid(data)
  /\ MaySend
  /\ \/ Send(OpenRequest(depot, operator, BusinessDate, data))
     \/ SendFailed(OpenRequest(depot, operator, BusinessDate, data))
  /\ UNCHANGED <<screen, depot, operator, openData, depotStates, loader, sideVars>>

(* CloseForm's Finalize Day button: onSubmit up to its await. *)
SubmitClose(data) ==
  /\ screen = "close"
  /\ openData # <<>> /\ depot # Null /\ operator # Null
  /\ CloseFormValid(data)
  /\ MaySend
  /\ \/ Send(CloseRequest(depot, operator, BusinessDate, data))
     \/ SendFailed(CloseRequest(depot, operator, BusinessDate, data))
  /\ UNCHANGED <<screen, depot, operator, openData, depotStates, loader, sideVars>>

\* String(n) for the amounts stored here.
String(n) ==
  CASE n = 0 -> "0"
    [] n = 1 -> "1"
    [] n = 2 -> "2"
    [] n = 3 -> "3"
    [] n = 0 - 1 -> "-1"

\* The OpenData loadDepotOpenData builds from a row; `of` records whose row.
OpenDataOfRow(r) ==
  [cash |-> String(r.opening_cash_cfa), of |-> KeyOf(r)]

\* The OpenData OpenForm's onSubmit builds from the form after its insert.
OpenDataOfForm(data, d, n) == [cash |-> data.cash, of |-> <<d, n>>]

(* OpenForm's onSubmit after its await. *)
OpenSubmitted(i) ==
  /\ i \in 1..Len(inflight)
  /\ inflight[i].kind = "insertOpen"
  /\ LET req == inflight[i]
     IN IF req.error = UNIQUE_VIOLATION
        THEN /\ depotStates' = [depotStates EXCEPT ![req.depot] = "OPENED"]
             /\ inflight' = [inflight EXCEPT ![i] =
                   Serve(LoadOpenRequest(req.depot, req.date, "status"),
                         depot_day_open, depot_day_close).req]
             /\ UNCHANGED <<screen, openData>>
        ELSE IF req.error # Null
        THEN /\ inflight' = RemoveAt(inflight, i)
             /\ UNCHANGED <<screen, openData, depotStates>>
        ELSE /\ openData' = <<OpenDataOfForm(req.data[1], req.depot, req.date)>>
             /\ depotStates' = [depotStates EXCEPT ![req.depot] = "OPENED"]
             /\ screen' = "status"
             /\ inflight' = RemoveAt(inflight, i)
  /\ UNCHANGED <<storeVars, depot, operator, loader, sideVars>>

(* CloseForm's onSubmit after its await. *)
CloseSubmitted(i) ==
  /\ i \in 1..Len(inflight)
  /\ inflight[i].kind = "insertClose"
  /\ LET req == inflight[i]
     IN /\ inflight' = RemoveAt(inflight, i)
        /\ IF req.error = Null \/ req.error = UNIQUE_VIOLATION
           THEN /\ depotStates' = [depotStates EXCEPT ![req.depot] = "CLOSED"]
                /\ screen' = "final"
           ELSE UNCHANGED <<screen, depotStates>>
  /\ UNCHANGED <<storeVars, depot, operator, openData, loader, sideVars>>

(* loadDepotOpenData after its await, and what its caller does next. *)
OpenDataLoaded(i) ==
  /\ i \in 1..Len(inflight)
  /\ inflight[i].kind = "selectOpen"
  /\ LET req == inflight[i]
     IN /\ inflight' = RemoveAt(inflight, i)
        /\ openData' = IF req.result # <<>> THEN <<OpenDataOfRow(req.result[1])>>
                       ELSE openData
        /\ screen' = IF req.then = "status" THEN "status" ELSE screen
  /\ UNCHANGED <<storeVars, depot, operator, depotStates, loader, sideVars>>

\* A loop body with the two outcomes of the close read exchanged.
resolveDepotState_exchanged(openRow, closeRow) ==
  IF openRow = <<>> THEN "NOT_OPENED"
  ELSE IF closeRow # <<>> THEN "OPENED" ELSE "CLOSED"

\* The body of loadAllDepotStates' loop: the state of a depot from the rows read.
resolveDepotState(openRow, closeRow) ==
  IF openRow = <<>> THEN "NOT_OPENED"
  ELSE IF closeRow # <<>> THEN "CLOSED" ELSE "OPENED"

\* The loader moves on to the next depot, or to setDepotStates after the last.
NextDepot(l, st) ==
  [l EXCEPT !.states = st, !.openRow = <<>>,
            !.i = IF l.i < Len(DEPOTS) THEN l.i + 1 ELSE l.i,
            !.phase = IF l.i < Len(DEPOTS) THEN "open" ELSE "set"]

(* loadAllDepotStates: one awaited read of the store. *)
LoaderRead ==
  /\ loader # <<>>
  /\ loader[1].phase \in {"open", "close"}
  /\ LET l == loader[1]
         d == DEPOTS[l.i]
         openRow == IF l.phase = "open" THEN maybeSingle(depot_day_open, d, l.date)
                    ELSE l.openRow
         closeRow == maybeSingle(depot_day_close, d, l.date)
     IN loader' =
          IF l.phase = "open" /\ openRow # <<>>
          THEN <<[l EXCEPT !.phase = "close", !.openRow = openRow]>>
          ELSE <<NextDepot(l, [l.states EXCEPT ![d] = resolveDepotState(openRow, closeRow)])>>
  /\ UNCHANGED <<storeVars, screen, depot, operator, openData, depotStates,
                 inflight, sideVars>>

(* loadAllDepotStates: setDepotStates(states). *)
LoaderSet ==
  /\ loader # <<>>
  /\ loader[1].phase = "set"
  /\ depotStates' = loader[1].states
  /\ loader' = <<>>
  /\ UNCHANGED <<storeVars, screen, depot, operator, openData, inflight, sideVars>>

(* Another operator's page: its OpenForm onSubmit insert reaches the store. *)
OtherOpen(d, o, data) ==
  /\ OpenFormValid(data)
  /\ depot_day_open' = InsertOpen(depot_day_open, OpenInsertRow(d, o, BusinessDate, data)).tbl
  /\ UNCHANGED <<depot_day_close, pageVars, sideVars>>

(* Another operator's page: its CloseForm onSubmit insert reaches the store. *)
OtherClose(d, o, data) ==
  /\ CloseFormValid(data)
  /\ depot_day_close' =
       InsertClose(depot_day_open, depot_day_close, CloseInsertRow(d, o, BusinessDate, data)).tbl
  /\ UNCHANGED <<depot_day_open, pageVars, sideVars>>

(* --------------------------- admin dashboards -------------------------- *)
\* a ?? b ?? 0 and a || 0 over nullable numbers (<<>> is null).
Coalesce(a, b) == IF a # <<>> THEN a[1] ELSE IF b # <<>> THEN b[1] ELSE 0
OrZero(a) == Coalesce(a, <<>>)

\* The depot_day_state view: one row per opened depot-day, joined with its
\* close row.
depot_day_state(opens, closes, k) ==
  IF Len(opens[k]) = 0 THEN <<>>
  ELSE LET o == opens[k][1]
           c == closes[k]
       IN <<[depot_id |-> o.depot_id, business_date |-> o.business_date,
             opening_cash_cfa |-> <<o.opening_cash_cfa>>,
             operator_open |-> o.operator_name,
             operator_close |-> IF c # <<>> THEN c[1].operator_name ELSE Null,
             cash_sales_total_cfa |-> IF c # <<>> THEN <<c[1].cash_sales_total_cfa>> ELSE <<>>,
             mobile_sales_total_cfa |-> IF c # <<>> THEN <<c[1].mobile_sales_total_cfa>> ELSE <<>>,
             closing_cash_cfa |-> IF c # <<>> THEN <<c[1].closing_cash_cfa>> ELSE <<>>,
             restock_cash_used |-> IF c # <<>> THEN <<c[1].restock_cash_used>> ELSE <<>>]>>

\* convertSupabaseData, for one row; closeRow is closeMap.get(key).
convertSupabaseData(r, closeRow) ==
  [depot_id |-> r.depot_id,
   business_date |-> r.business_date,
   opening_cash_cfa |-> OrZero(r.opening_cash_cfa),
   closing_cash_physical |->
     Coalesce(r.closing_cash_cfa, IF closeRow # <<>> THEN <<closeRow[1].closing_cash_cfa>> ELSE <<>>),
   cash_sales_cfa |->
     Coalesce(r.cash_sales_total_cfa, IF closeRow # <<>> THEN <<closeRow[1].cash_sales_total_cfa>> ELSE <<>>),
   mobile_sales_cfa |->
     Coalesce(r.mobile_sales_total_cfa, IF closeRow # <<>> THEN <<closeRow[1].mobile_sales_total_cfa>> ELSE <<>>),
   restock_cash_used |-> 0,
   operator_open |-> r.operator_open,
   operator_close |->
     IF r.operator_close # Null THEN r.operator_close
     ELSE IF closeRow # <<>> THEN closeRow[1].operator_name ELSE Null]

getTotalSales(d) == d.cash_sales_cfa + d.mobile_sales_cfa

\* An expected cash that counts every sale, mobile money included.
getExpectedCash_totalSales(d) ==
  d.opening_cash_cfa + getTotalSales(d) - d.restock_cash_used

getExpectedCash(d) == d.opening_cash_cfa + d.cash_sales_cfa - d.restock_cash_used

Abs(x) == IF x < 0 THEN 0 - x ELSE x

\* A review without the expected === 0 case.
getCashReview_noZeroCase(d) ==
  LET expected == getExpectedCash(d)
      actual == d.closing_cash_physical
      diff == Abs(actual - expected)
      pctNum == IF expected > 0 THEN diff * 100 ELSE 0
      pctDen == IF expected > 0 THEN expected ELSE 1
  IN [expected |-> expected, actual |-> actual, diff |-> diff,
      pctNum |-> pctNum, pctDen |-> pctDen,
      needsReview |-> pctNum > CASH_REVIEW_TOLERANCE_PCT * pctDen]

\* getCashReview of the executive dashboard. pct = (diff / expected) * 100 is
\* kept as the exact fraction pctNum / pctDen.
getCashReview(d) ==
  LET expected == getExpectedCash(d)
      actual == d.closing_cash_physical
      diff == Abs(actual - expected)
      pctNum == IF expected > 0 THEN diff * 100 ELSE 0
      pctDen == IF expected > 0 THEN expected ELSE 1
  IN [expected |-> expected, actual |-> actual, diff |-> diff,
      pctNum |-> pctNum, pctDen |-> pctDen,
      needsReview |-> IF expected = 0 THEN actual # 0
                      ELSE pctNum > CASH_REVIEW_TOLERANCE_PCT * pctDen]

\* getCashReview of the governance dashboard, on a depot_day_state row.
getCashReviewGovernance(r) ==
  LET expected == OrZero(r.opening_cash_cfa) + OrZero(r.cash_sales_total_cfa)
                    - OrZero(r.restock_cash_used)
      actual == OrZero(r.closing_cash_cfa)
      diff == Abs(actual - expected)
      pctNum == IF expected > 0 THEN diff * 100 ELSE 0
      pctDen == IF expected > 0 THEN expected ELSE 1
  IN pctNum > 5 * pctDen

\* daySummary's cashIssues test for one closed depot (second dashboard file).
daySummaryCashIssue(d) ==
  LET expected == d.opening_cash_cfa + d.cash_sales_cfa - d.restock_cash_used
      actual == d.closing_cash_physical
      diff == Abs(actual - expected)
      pctNum == IF expected > 0 THEN diff * 100 ELSE 0
      pctDen == IF expected > 0 THEN expected ELSE 1
  IN pctNum > 5 * pctDen

\* CloseForm's cash figures: restockCostValue, expectedCash and variance.
restockCostValue(data) ==
  IF Cardinality(data.restockSkus) > 0 THEN Number(data.restockCash) ELSE 0

CloseFormExpectedCash(open, data) ==
  Number(open.cash) + Number(data.cash) - restockCostValue(data)

CloseFormVariance(open, data) ==
  Number(data.closingCash) - CloseFormExpectedCash(open, data)

\* currentStatusCards: the status of a depot whose record of today is rec
\* (<<>> when data.find returns nothing).
currentStatus(rec) ==
  IF rec # <<>> /\ rec[1].operator_close # Null THEN "CLOSED"
  ELSE IF rec # <<>> /\ rec[1].operator_open # Null THEN "OPEN"
  ELSE "NOT_OPENED"

\* The record the executive dashboard holds for key k after loadData.
DashboardRecord(k) ==
  LET r == depot_day_state(depot_day_open, depot_day_close, k)
  IN IF r = <<>> THEN <<>>
     ELSE <<convertSupabaseData(r[1], maybeSingle(depot_day_close, k[1], k[2]))>>

\* The records SpecDash reviews.
DepotDayEvents ==
  [depot_id : {DEPOTS[1]}, business_date : {BusinessDate},
   opening_cash_cfa : 0..MaxOpening, closing_cash_physical : 0..MaxClosing,
   cash_sales_cfa : 0..MaxSales, mobile_sales_cfa : 0..MaxMobile,
   restock_cash_used : 0..MaxRestock,
   operator_open : {Null, OPERATORS[1]}, operator_close : {Null, OPERATORS[1]}]

\* The depot_day_state row carrying the amounts of record d.
StateRowOf(d) ==
  [depot_id |-> d.depot_id, business_date |-> d.business_date,
   opening_cash_cfa |-> <<d.opening_cash_cfa>>,
   operator_open |-> d.operator_open, operator_close |-> d.operator_close,
   cash_sales_total_cfa |-> <<d.cash_sales_cfa>>,
   mobile_sales_total_cfa |-> <<d.mobile_sales_cfa>>,
   closing_cash_cfa |-> <<d.closing_cash_physical>>,
   restock_cash_used |-> <<d.restock_cash_used>>]

(* The dashboards render: everything they derive from the record. *)
Review ==
  /\ review = <<>>
  /\ review' = <<[status |-> currentStatus(<<ev>>),
                  cash |-> getCashReview(ev),
                  governance |-> getCashReviewGovernance(row),
                  cashIssue |-> daySummaryCashIssue(ev)]>>
  /\ UNCHANGED <<storeVars, pageVars, ev, row, formVars, trustVars, signalVars, salesVars, fnVars>>

InitDashIdle == ev = <<>> /\ row = <<>> /\ review = <<>>
InitFormIdle == form = <<>> /\ candidates = <<>> /\ inserted = <<>>
InitTrustIdle == trustInput = <<>> /\ trustScore = <<>>
InitSignalsIdle == history = <<>> /\ signals = <<>>
InitSalesIdle == salesData = <<>> /\ metrics = <<>>
InitFnIdle == call = <<>> /\ result = <<>>

InitDash ==
  /\ InitStore
  /\ InitPage
  /\ ev \in DepotDayEvents
  /\ row = StateRowOf(ev)
  /\ review = <<>>
  /\ InitFormIdle /\ InitTrustIdle /\ InitSignalsIdle /\ InitSalesIdle /\ InitFnIdle

NextDash == Review

SpecDash == InitDash /\ [][NextDash]_vars

(* ------------------------------ close forms --------------------------- *)
numericKeys == <<"riceWhite", "riceBrown", "ricePerfumed", "oil25", "oil5", "oil1">>
NumericKey == {numericKeys[i] : i \in 1..Len(numericKeys)}
InventoryKey == NumericKey \cup {"spaghetti"}

\* statusRank of restockCandidates.
statusRank(st) == CASE st = "OUT" -> 0 [] st = "LOW" -> 1 [] st = "IN" -> 2

\* The candidate restockCandidates pushes for a numeric key.
NumericCandidate(key, openInv, inv) ==
  [key |-> key, open |-> String(Number(openInv[key])), close |-> String(Number(inv[key]))]

\* A restockCandidates that also offers a SKU whose quantity did not change.
restockCandidates_orEqual(openInv, inv) ==
  LET IsUp(i) == Number(inv[numericKeys[i]]) >= Number(openInv[numericKeys[i]])
      ups == SelectSeq([i \in 1..Len(numericKeys) |-> i], IsUp)
  IN [j \in 1..Len(ups) |-> NumericCandidate(numericKeys[ups[j]], openInv, inv)]
     \o (IF statusRank(inv["spaghetti"]) >= statusRank(openInv["spaghetti"])
         THEN <<[key |-> "spaghetti", open |-> openInv["spaghetti"], close |-> inv["spaghetti"]]>>
         ELSE <<>>)

\* CloseForm's restockCandidates: the SKUs whose closing value is above the
\* opening value, numeric keys first, in the order of numericKeys.
restockCandidates(openInv, inv) ==
  LET IsUp(i) == Number(inv[numericKeys[i]]) > Number(openInv[numericKeys[i]])
      ups == SelectSeq([i \in 1..Len(numericKeys) |-> i], IsUp)
  IN [j \in 1..Len(ups) |-> NumericCandidate(numericKeys[ups[j]], openInv, inv)]
     \o (IF statusRank(inv["spaghetti"]) > statusRank(openInv["spaghetti"])
         THEN <<[key |-> "spaghetti", open |-> openInv["spaghetti"], close |-> inv["spaghetti"]]>>
         ELSE <<>>)

\* The restockSelections effect on a fresh form: every candidate selected.
restockSelections(cands) == [k \in {cands[i].key : i \in 1..Len(cands)} |-> TRUE]

\* CloseForm's restockSkus: the keys of the selected candidates.
restockSkus(cands, selections) ==
  {cands[i].key : i \in {j \in 1..Len(cands) : selections[cands[j].key]}}

\* Object.values(inventory).every((v) => v !== "")
InventoryFilled(inv) == \A k \in InventoryKey : inv[k] # ""

\* The row the close onSubmit of src/app/page.tsx inserts; its CloseData has
\* cash and mobile and no counted closing cash.
CloseInsertRowPage(d, o, n, data) ==
  [depot_id |-> d, operator_name |-> o, business_date |-> n,
   cash_sales_total_cfa |-> Number(data.cash),
   mobile_sales_total_cfa |-> Number(data.mobile),
   closing_cash_cfa |-> Number(data.cash)]

\* The inventories and close forms SpecForm draws.
Inventories ==
  {[k \in InventoryKey |-> IF k = "spaghetti" THEN st ELSE q[k]] :
     q \in [NumericKey -> {"0", "1"}], st \in {"OUT", "LOW", "IN"}}

CloseForms ==
  [cash : {"1"}, mobile : {"1"}, closingCash : {"1", "3"}, restockCash : {"1"},
   inventory : Inventories, open : [cash : {"2"}, inventory : Inventories]]

(* CloseForm renders: the restock candidates of what is typed. *)
CloseFormRender ==
  /\ candidates = <<>>
  /\ candidates' = <<restockCandidates(form.open.inventory, form.inventory)>>
  /\ UNCHANGED <<storeVars, pageVars, dashVars, form, inserted, trustVars, signalVars, salesVars, fnVars>>

(* The Finalize Day button of one of the two pages: the row its onSubmit sends. *)
FinalizeDay(page) ==
  /\ candidates # <<>> /\ inserted = <<>>
  /\ form.cash # "" /\ form.mobile # "" /\ InventoryFilled(form.inventory)
  /\ IF page = "src/app/page.tsx"
     THEN inserted' = <<[page |-> page,
                         row |-> CloseInsertRowPage(DEPOTS[1], OPERATORS[1], BusinessDate,
                                                    [cash |-> form.cash, mobile |-> form.mobile])]>>
     ELSE /\ CloseFormValid([cash |-> form.cash, mobile |-> form.mobile,
                             closingCash |-> form.closingCash, restockCash |-> form.restockCash,
                             restockSkus |-> restockSkus(candidates[1], restockSelections(candidates[1]))])
          /\ inserted' = <<[page |-> page,
                            row |-> CloseInsertRow(DEPOTS[1], OPERATORS[1], BusinessDate,
                              [cash |-> form.cash, mobile |-> form.mobile,
                               closingCash |-> form.closingCash, restockCash |-> form.restockCash,
                               restockSkus |-> restockSkus(candidates[1], restockSelections(candidates[1]))])]>>
  /\ UNCHANGED <<storeVars, pageVars, dashVars, form, candidates, trustVars, signalVars, salesVars, fnVars>>

InitForm ==
  /\ InitStore
  /\ InitPage
  /\ form \in CloseForms
  /\ candidates = <<>>
  /\ inserted = <<>>
  /\ InitDashIdle /\ InitTrustIdle /\ InitSignalsIdle /\ InitSalesIdle /\ InitFnIdle

NextForm ==
  \/ CloseFormRender
  \/ \E page \in {"src/app/page.tsx", "src/unnamed/part_000"} : FinalizeDay(page)

SpecForm == InitForm /\ [][NextForm]_vars

(* ------------------------------ trust score --------------------------- *)
Min(a, b) == IF a < b THEN a ELSE b
Max(a, b) == IF a > b THEN a ELSE b

\* A trust score that is not clamped to the 0-100 range.
computeTrustScore_unclamped(input) ==
  100 - input.lateOpens * 5 - input.missedCloses * 10
      - input.varianceDays * 25 - input.inactiveDays * 1

computeTrustScore(input) ==
  LET score == 100 - input.lateOpens * 5 - input.missedCloses * 10
                   - input.varianceDays * 25 - input.inactiveDays * 1
  IN Max(0, Min(100, score))

TrustScoreInputs ==
  [lateOpens : 0..MaxLateOpens, missedCloses : 0..MaxMissedCloses,
   varianceDays : 0..MaxVarianceDays, inactiveDays : 0..MaxInactiveDays]

(* A caller scores one input. *)
Score ==
  /\ trustScore = <<>>
  /\ trustScore' = <<computeTrustScore(trustInput)>>
  /\ UNCHANGED <<storeVars, pageVars, dashVars, formVars, trustInput, signalVars, salesVars, fnVars>>

InitTrust ==
  /\ InitStore
  /\ InitPage
  /\ trustInput \in TrustScoreInputs
  /\ trustScore = <<>>
  /\ InitDashIdle /\ InitFormIdle /\ InitSignalsIdle /\ InitSalesIdle /\ InitFnIdle

NextTrust == Score

SpecTrust == InitTrust /\ [][NextTrust]_vars

(* --------------------- governance dashboard: compliance ---------------- *)
\* Business dates are day numbers here: ISO dates compare under localeCompare
\* as their days do. Open times are local wall-clock [hours, minutes].
latestDate == 100

\* rawData.open.find(o => o.depot_id === d.depot_id && o.business_date === d.business_date)
FindOpen(open, d) ==
  LET hits == SelectSeq(open, LAMBDA o : o.depot_id = d.depot_id /\ o.business_date = d.business_date)
  IN IF hits = <<>> THEN <<>> ELSE <<hits[1]>>

\* A history of every row of the depot, however many.
depotHistory_unsliced(state, depotId) ==
  SelectSeq(state, LAMBDA d : d.depot_id = depotId)

\* depotHistory: the depot's first 30 rows of rawData.state.
depotHistory(state, depotId) ==
  LET own == SelectSeq(state, LAMBDA d : d.depot_id = depotId)
  IN SubSeq(own, 1, Min(30, Len(own)))

\* The ComplianceEventInput of one row of the history.
ComplianceEvent(rawData, d) ==
  LET openMeta == FindOpen(rawData.open, d)
      openedAt == IF openMeta = <<>> THEN <<>> ELSE openMeta[1].opened_at
  IN [date |-> d.business_date,
      openedLate |-> IF openedAt # <<>> THEN openedAt[1].hours > 8 ELSE FALSE,
      closed |-> d.operator_close # Null,
      hasVariance |-> IF d.operator_close # Null THEN getCashReviewGovernance(d) ELSE FALSE]

Count(es, Test(_)) == Len(SelectSeq(es, Test))

\* trustInput of the depot.
TrustInputOf(events) ==
  [lateOpens |-> Count(events, LAMBDA e : e.openedLate),
   missedCloses |-> Count(events, LAMBDA e : ~e.closed),
   varianceDays |-> Count(events, LAMBDA e : e.hasVariance),
   inactiveDays |-> 30 - Len(events)]

\* A sort that leaves the events in the order given.
sortDesc_unsorted(es) == es

\* [...events].sort((a, b) => b.date.localeCompare(a.date)): stable, most
\* recent first.
RECURSIVE sortDesc(_)
sortDesc(es) ==
  IF Len(es) <= 1 THEN es
  ELSE LET rest == sortDesc(Tail(es))
           h == Head(es)
           k == Cardinality({i \in 1..Len(rest) : rest[i].date > h.date})
       IN SubSeq(rest, 1, k) \o <<h>> \o SubSeq(rest, k + 1, Len(rest))

isClean(event) == ~event.openedLate /\ event.closed /\ ~event.hasVariance

\* The clean streak loop: the events before the first that is not clean.
RECURSIVE cleanStreak(_)
cleanStreak(sorted) ==
  IF sorted = <<>> \/ ~isClean(Head(sorted)) THEN 0
  ELSE 1 + cleanStreak(Tail(sorted))

computeDepotCompliance(input, score) ==
  LET sorted == sortDesc(input.events)
      last14 == SubSeq(sorted, 1, Min(14, Len(sorted)))
      variances == SelectSeq(last14, LAMBDA e : e.hasVariance)
      consecutiveCleanDays == cleanStreak(sorted)
  IN [depotId |-> input.depotId,
      status |-> IF consecutiveCleanDays >= 7 THEN "CLEAN" ELSE "NOT_CLEAN",
      consecutiveCleanDays |-> consecutiveCleanDays,
      lastVarianceDate |-> IF variances = <<>> THEN <<>> ELSE <<variances[1].date>>,
      lateOpenCount |-> Count(last14, LAMBDA e : e.openedLate),
      missedDayCount |-> Count(last14, LAMBDA e : ~e.closed),
      trustScore |-> score]

\* The days SpecSignals draws: opened at 08:00, 08:30 or 09:00 and closed with
\* the cash balanced; opened at 08:00 and not closed; opened at 08:00 and
\* closed with no cash left.
DayKind == {"0800", "0830", "0900", "notClosed", "variance"}

StateRow(date, kind) ==
  [depot_id |-> DEPOTS[1], business_date |-> date,
   operator_open |-> OPERATORS[1],
   operator_close |-> IF kind = "notClosed" THEN Null ELSE OPERATORS[1],
   opening_cash_cfa |-> <<20>>,
   cash_sales_total_cfa |-> IF kind = "notClosed" THEN <<>> ELSE <<0>>,
   mobile_sales_total_cfa |-> IF kind = "notClosed" THEN <<>> ELSE <<0>>,
   restock_cash_used |-> IF kind = "notClosed" THEN <<>> ELSE <<0>>,
   closing_cash_cfa |-> CASE kind = "notClosed" -> <<>>
                          [] kind = "variance" -> <<0>>
                          [] OTHER -> <<20>>]

OpenRow(date, kind) ==
  [depot_id |-> DEPOTS[1], business_date |-> date,
   opened_at |-> <<CASE kind = "0830" -> [hours |-> 8, minutes |-> 30]
                     [] kind = "0900" -> [hours |-> 9, minutes |-> 0]
                     [] OTHER -> [hours |-> 8, minutes |-> 0]>>]

\* A depot's days, most recent first: the day of latestDate, then up to
\* MaxRecent - 1 more days drawn freely, each a day or 45 days before the
\* one after it, then a run of clean days one after the other.
RecentDays ==
  UNION {{r \in [1..len -> DayKind \X {1, 45}] : r[1][2] = 1} : len \in 1..MaxRecent}

OlderCounts == {0, 5, 6} \cup (MaxOlder - 2 .. MaxOlder + 1)

RECURSIVE DateOf(_, _)
DateOf(r, i) == IF i = 1 THEN latestDate ELSE DateOf(r, i - 1) - r[i][2]

RawData(r, n) ==
  LET dates == [i \in 1..(Len(r) + n) |->
                  IF i <= Len(r) THEN DateOf(r, i) ELSE DateOf(r, Len(r)) - (i - Len(r))]
      kinds == [i \in 1..(Len(r) + n) |-> IF i <= Len(r) THEN r[i][1] ELSE "0800"]
  IN [state |-> [i \in 1..(Len(r) + n) |-> StateRow(dates[i], kinds[i])],
      open |-> [i \in 1..(Len(r) + n) |-> OpenRow(dates[i], kinds[i])]]

(* The signals memo, for the depot: its events, trust score and compliance. *)
ComputeSignals ==
  /\ signals = <<>>
  /\ LET events == [i \in 1..Len(depotHistory(history.state, DEPOTS[1])) |->
                      ComplianceEvent(history, depotHistory(history.state, DEPOTS[1])[i])]
         input == TrustInputOf(events)
         score == computeTrustScore(input)
     IN signals' = <<[events |-> events, trustInput |-> input, trustScore |-> score,
                      compliance |-> computeDepotCompliance(
                                       [depotId |-> DEPOTS[1], events |-> events], score)]>>
  /\ UNCHANGED <<storeVars, pageVars, dashVars, formVars, trustVars, history, salesVars, fnVars>>

InitSignals ==
  /\ InitStore
  /\ InitPage
  /\ history \in {RawData(r, n) : r \in RecentDays, n \in OlderCounts}
  /\ signals = <<>>
  /\ InitDashIdle /\ InitFormIdle /\ InitTrustIdle /\ InitSalesIdle /\ InitFnIdle

NextSignals == ComputeSignals

SpecSignals == InitSignals /\ [][NextSignals]_vars

(* ------------------------------------------------------------------------ *)
(* Sales aggregates: the executive dashboard's month metrics, month-over-   *)
(* month change and rolling 5-day average, and the 7-day rolling average of *)
(* computeSalesMomentum. Dates are day numbers; a quotient a / b is kept as *)
(* the exact pair of its numerator and denominator.                         *)
(* ------------------------------------------------------------------------ *)

\* new Date(now.getFullYear(), now.getMonth(), 1) and the bounds of the month
\* before it, as day numbers.
firstDayOfMonth == 31
firstDayOfLastMonth == 1
lastDayOfLastMonth == 30

\* reduce((sum, value) => sum + value, 0)
RECURSIVE Sum(_)
Sum(s) == IF Len(s) = 0 THEN 0 ELSE s[1] + Sum(Tail(s))

SalesOf(ds) == Sum([i \in 1..Len(ds) |-> getTotalSales(ds[i])])

DatesOf(ds) == {ds[i].business_date : i \in 1..Len(ds)}

thisMonthMetrics(data) ==
  IF Len(data) = 0
  THEN [totalSales |-> 0, completedDays |-> 0,
        avgSalesPerDay |-> [num |-> 0, den |-> 1], cashReviewDays |-> 0]
  ELSE LET monthData == SelectSeq(data, LAMBDA d : d.business_date >= firstDayOfMonth)
           closedDepotData == SelectSeq(monthData, LAMBDA d : d.operator_close # Null)
           completedDays == Cardinality(DatesOf(closedDepotData))
           daysWithCashIssues ==
             DatesOf(SelectSeq(closedDepotData, LAMBDA d : getCashReview(d).needsReview))
           totalSales == SalesOf(closedDepotData)
       IN [totalSales |-> totalSales,
           completedDays |-> completedDays,
           avgSalesPerDay |-> IF completedDays > 0
                              THEN [num |-> totalSales, den |-> completedDays]
                              ELSE [num |-> 0, den |-> 1],
           cashReviewDays |-> Cardinality(daysWithCashIssues)]

\* null is <<>>, a total is <<totalSales>>.
previousMonthSales(data) ==
  IF Len(data) = 0 THEN <<>>
  ELSE LET lastMonthData ==
             SelectSeq(data, LAMBDA d : /\ d.business_date >= firstDayOfLastMonth
                                        /\ d.business_date <= lastDayOfLastMonth
                                        /\ d.operator_close # Null)
       IN IF Len(lastMonthData) = 0 THEN <<>> ELSE <<SalesOf(lastMonthData)>>

\* A change that divides by whatever the previous month sums to.
monthOverMonthChange_noZeroGuard(totalSales, previous) ==
  IF previous = <<>> THEN <<>>
  ELSE <<[num |-> (totalSales - previous[1]) * 100, den |-> previous[1]]>>

\* ((totalSales - previousMonthSales) / previousMonthSales) * 100, or null.
monthOverMonthChange(totalSales, previous) ==
  IF previous = <<>> \/ previous[1] = 0 THEN <<>>
  ELSE <<[num |-> (totalSales - previous[1]) * 100, den |-> previous[1]]>>

\* The distinct elements of s, in the order of their first occurrence: the
\* keys of an object filled in the order of s.
RECURSIVE Keys(_)
Keys(s) ==
  IF Len(s) = 0 THEN <<>>
  ELSE LET r == Keys(SubSeq(s, 1, Len(s) - 1))
           l == s[Len(s)]
       IN IF \E i \in 1..Len(r) : r[i] = l THEN r ELSE Append(r, l)

\* One record per business date, most recent first.
allDailyRecords(data) ==
  LET dates == Keys([i \in 1..Len(data) |-> data[i].business_date])
      on(date) == SelectSeq(data, LAMBDA d : d.business_date = date)
      closedOn(date) == SelectSeq(on(date), LAMBDA d : d.operator_close # Null)
      inReview(date) == SelectSeq(closedOn(date), LAMBDA d : getCashReview(d).needsReview)
  IN sortDesc([i \in 1..Len(dates) |->
                 [date |-> dates[i],
                  sales |-> SalesOf(closedOn(dates[i])),
                  closedDepots |-> Len(closedOn(dates[i])),
                  totalDepots |-> Len(on(dates[i])),
                  needsReview |-> [j \in 1..Len(inReview(dates[i])) |->
                                     inReview(dates[i])[j].depot_id]]])

\* [...records].sort((a, b) => a.date.localeCompare(b.date)): stable, oldest
\* first.
RECURSIVE sortAsc(_)
sortAsc(es) ==
  IF Len(es) <= 1 THEN es
  ELSE LET rest == sortAsc(Tail(es))
           h == Head(es)
           k == Cardinality({i \in 1..Len(rest) : rest[i].date < h.date})
       IN SubSeq(rest, 1, k) \o <<h>> \o SubSeq(rest, k + 1, Len(rest))

\* The window after the i-th record, when nothing is ever shifted out of it.
RECURSIVE windowAfter_cumulative(_, _)
windowAfter_cumulative(ascRecords, i) ==
  IF i = 0 THEN <<>>
  ELSE Append(windowAfter_cumulative(ascRecords, i - 1), ascRecords[i].sales)

\* The window after the forEach body has run for the i-th record.
RECURSIVE windowAfter(_, _)
windowAfter(ascRecords, i) ==
  IF i = 0 THEN <<>>
  ELSE LET pushed == Append(windowAfter(ascRecords, i - 1), ascRecords[i].sales)
       IN IF Len(pushed) > 5 THEN Tail(pushed) ELSE pushed

\* avgByDate: for each date, the average written last for it.
rolling5DayAvgByDate(records) ==
  LET ascRecords == sortAsc(records)
      last(date) == CHOOSE i \in 1..Len(ascRecords) :
                      /\ ascRecords[i].date = date
                      /\ \A j \in 1..Len(ascRecords) : ascRecords[j].date = date => j <= i
  IN [date \in {records[i].date : i \in 1..Len(records)} |->
        [num |-> Sum(windowAfter(ascRecords, last(date))),
         den |-> Len(windowAfter(ascRecords, last(date)))]]

\* dailySales of the governance dashboard: the sales of the closed rows, by
\* business date.
dailySales(state) ==
  LET closed == SelectSeq(state, LAMBDA d : d.operator_close # Null)
      dates == Keys([i \in 1..Len(closed) |-> closed[i].business_date])
      salesOn(date) ==
        Sum([i \in 1..Len(closed) |->
               IF closed[i].business_date = date
               THEN OrZero(closed[i].cash_sales_total_cfa)
                      + OrZero(closed[i].mobile_sales_total_cfa)
               ELSE 0])
  IN [i \in 1..Len(dates) |-> [date |-> dates[i], sales |-> salesOn(dates[i])]]

\* chartData of computeSalesMomentum: each point with the average of its
\* window, sorted.slice(Math.max(0, index - 6), index + 1).
chartData(sales) ==
  LET sorted_ == sortAsc(sales)
  IN [index \in 1..Len(sorted_) |->
        LET window == SubSeq(sorted_, Max(1, index - 6), index)
        IN [date |-> sorted_[index].date,
            sales |-> sorted_[index].sales,
            rollingAvg |-> [num |-> Sum([i \in 1..Len(window) |-> window[i].sales]),
                            den |-> Len(window)]]]

\* Math.round(x) for x = num / den with den > 0.
Round(num, den) == (2 * num + den) \div (2 * den)

\* The mean of the sales of a slice, 0 for an empty slice.
Mean(slice) ==
  IF Len(slice) > 0
  THEN [num |-> Sum([i \in 1..Len(slice) |-> slice[i].sales]), den |-> Len(slice)]
  ELSE [num |-> 0, den |-> 1]

\* ((currentWeekAvg - priorWeekAvg) / priorWeekAvg) * 100, or 0.
growthVsPriorWeek(priorWeekAvg, currentWeekAvg) ==
  IF priorWeekAvg.num > 0
  THEN [num |-> (currentWeekAvg.num * priorWeekAvg.den
                   - priorWeekAvg.num * currentWeekAvg.den) * 100,
        den |-> priorWeekAvg.num * currentWeekAvg.den]
  ELSE [num |-> 0, den |-> 1]

\* computeSalesMomentum. rolling7DayAvg is rounded to a unit and
\* growthVsPriorWeek to a tenth (kept in tenths); the volatility index is
\* kept as its exact square before rounding, (stdDev / avgSales * 100)^2.
computeSalesMomentum(sales) ==
  LET sorted_ == sortAsc(sales)
      n == Len(sorted_)
      last7Days == SubSeq(sorted_, Max(1, n - 6), n)
      avgSales == Mean(last7Days)
      squares == Sum([i \in 1..Len(last7Days) |->
                        (last7Days[i].sales * avgSales.den - avgSales.num)
                          * (last7Days[i].sales * avgSales.den - avgSales.num)])
      last14Days == SubSeq(sorted_, Max(1, n - 13), n)
      priorWeekSales == SubSeq(last14Days, 1, Min(7, Len(last14Days)))
      currentWeekSales == SubSeq(last14Days, 8, Min(14, Len(last14Days)))
      growth == growthVsPriorWeek(Mean(priorWeekSales), Mean(currentWeekSales))
  IN IF n = 0
     THEN [rolling7DayAvg |-> 0, volatilitySquared |-> [num |-> 0, den |-> 1],
           growthVsPriorWeek |-> 0, trend |-> "FLAT", chartData |-> <<>>]
     ELSE [rolling7DayAvg |-> Round(avgSales.num, avgSales.den),
           volatilitySquared |->
             IF avgSales.num > 0
             THEN [num |-> squares * 10000,
                   den |-> Len(last7Days) * avgSales.num * avgSales.num]
             ELSE [num |-> 0, den |-> 1],
           growthVsPriorWeek |-> Round(growth.num * 10, growth.den),
           trend |-> IF growth.num > 5 * growth.den THEN "UP"
                     ELSE IF growth.num < (0 - 5) * growth.den THEN "DOWN"
                     ELSE "FLAT",
           chartData |-> chartData(sales)]

MaxDays == 8

\* What happened at a depot on a day: not closed, or closed with these sales.
SalesKind == {"notClosed", "closed0", "closed2"}

SalesRecord(date, kind) ==
  [depot_id |-> DEPOTS[1], business_date |-> date,
   opening_cash_cfa |-> 20,
   closing_cash_physical |-> IF kind = "closed2" THEN 22 ELSE IF kind = "closed0" THEN 20 ELSE 0,
   cash_sales_cfa |-> IF kind = "closed2" THEN 2 ELSE 0,
   mobile_sales_cfa |-> 0,
   restock_cash_used |-> 0,
   operator_open |-> OPERATORS[1],
   operator_close |-> IF kind = "notClosed" THEN Null ELSE OPERATORS[1]]

\* The most recent business date of the data: early in the previous month, at
\* its end, early in this month.
TopDates == {3, 30, 33}

MaxVaried == 5

\* Consecutive days, most recent first, as the query orders them. The
\* MaxVaried most recent days are of any kind, the days before them are closed.
SalesDataSets ==
  UNION {{[i \in 1..n |-> SalesRecord(top + 1 - i, kinds[i])] :
            kinds \in {k \in [1..n -> SalesKind] :
                         \A i \in 1..n : i > MaxVaried => k[i] # "notClosed"},
            top \in TopDates} : n \in 0..MaxDays}

(* The month memos of the executive dashboard. *)
MonthMetrics ==
  /\ salesData # <<>>
  /\ metrics.month = <<>>
  /\ LET thisMonth == thisMonthMetrics(salesData[1])
         previous == previousMonthSales(salesData[1])
     IN metrics' = [metrics EXCEPT !.month =
                      <<[thisMonthMetrics |-> thisMonth,
                         previousMonthSales |-> previous,
                         monthOverMonthChange |->
                           monthOverMonthChange(thisMonth.totalSales, previous)]>>]
  /\ UNCHANGED <<storeVars, pageVars, dashVars, formVars, trustVars, signalVars, salesData, fnVars>>

(* The rolling averages of both dashboards. *)
SalesHistory ==
  /\ salesData # <<>>
  /\ metrics.chart = <<>>
  /\ LET data == salesData[1]
         state == [i \in 1..Len(data) |-> StateRowOf(data[i])]
     IN metrics' = [metrics EXCEPT !.chart =
                      <<[allDailyRecords |-> allDailyRecords(data),
                         rolling5DayAvgByDate |-> rolling5DayAvgByDate(allDailyRecords(data)),
                         dailySales |-> dailySales(state),
                         chartData |-> chartData(dailySales(state)),
                         salesMomentum |-> computeSalesMomentum(dailySales(state))]>>]
  /\ UNCHANGED <<storeVars, pageVars, dashVars, formVars, trustVars, signalVars, salesData, fnVars>>

InitSales ==
  /\ InitStore
  /\ InitPage
  /\ salesData \in {<<data>> : data \in SalesDataSets}
  /\ metrics = [month |-> <<>>, chart |-> <<>>]
  /\ InitDashIdle /\ InitFormIdle /\ InitTrustIdle /\ InitSignalsIdle /\ InitFnIdle

NextSales == MonthMetrics \/ SalesHistory

SpecSales == InitSales /\ [][NextSales]_vars

(* ------------------------------------------------------------------------ *)
(* Signal functions applied to one input: computeSystemHealth and           *)
(* computeInventorySignals.                                                 *)
(* ------------------------------------------------------------------------ *)
MaxDepotCount == 3
MaxSkus == 6

\* A health that reports missed opens before critical failures.
computeSystemHealth_amberFirst(input) ==
  IF input.missedOpens > 0 THEN "AMBER"
  ELSE IF input.cashVarianceCount > 0 \/ input.closedDepots < input.expectedDepots THEN "RED"
  ELSE "GREEN"

computeSystemHealth(input) ==
  IF input.cashVarianceCount > 0 \/ input.closedDepots < input.expectedDepots THEN "RED"
  ELSE IF input.missedOpens > 0 THEN "AMBER"
  ELSE "GREEN"

\* The InventorySignal of one SKUInput; a quotient is the exact pair of its
\* numerator and denominator.
InventorySignalOf(sku) ==
  [sku |-> sku.sku,
   skuLabel |-> sku.skuLabel,
   unitsDelta |-> sku.unitsDelta,
   cashImpact |-> Abs(sku.unitsDelta) * sku.estimatedUnitPrice,
   velocityVsAvg |->
     IF sku.avgVelocity > 0
     THEN [num |-> (Abs(sku.unitsDelta) - sku.avgVelocity) * 100, den |-> sku.avgVelocity]
     ELSE [num |-> 0, den |-> 1],
   surpriseIndex |->
     IF sku.avgVelocity > 0
     THEN [num |-> Abs(Abs(sku.unitsDelta) - sku.avgVelocity), den |-> sku.avgVelocity]
     ELSE [num |-> 0, den |-> 1]]

\* A sort that leaves the signals in the order of the input.
sortByCashImpact_unsorted(sigs) == sigs

\* signals.sort((a, b) => b.cashImpact - a.cashImpact): stable, largest first.
RECURSIVE sortByCashImpact(_)
sortByCashImpact(sigs) ==
  IF Len(sigs) <= 1 THEN sigs
  ELSE LET rest == sortByCashImpact(Tail(sigs))
           h == Head(sigs)
           k == Cardinality({i \in 1..Len(rest) : rest[i].cashImpact > h.cashImpact})
       IN SubSeq(rest, 1, k) \o <<h>> \o SubSeq(rest, k + 1, Len(rest))

computeInventorySignals(skus) ==
  LET sorted_ == sortByCashImpact([i \in 1..Len(skus) |-> InventorySignalOf(skus[i])])
  IN SubSeq(sorted_, 1, Min(5, Len(sorted_)))

SystemHealthInputs ==
  [expectedDepots : {Len(DEPOTS)}, closedDepots : 0..MaxDepotCount,
   cashVarianceCount : 0..MaxDepotCount, missedOpens : 0..MaxDepotCount]

\* The SKUs of an inventory, in the order of its keys.
skuKeys == numericKeys \o <<"spaghetti">>

SKUInputs ==
  UNION {{[i \in 1..n |-> [sku |-> skuKeys[i], skuLabel |-> skuKeys[i],
                           unitsDelta |-> m[i][1], avgVelocity |-> v,
                           estimatedUnitPrice |-> m[i][2]]] :
            m \in [1..n -> {0 - 2, 1} \X {1, 3}], v \in {0, 2}} : n \in 0..MaxSkus}

(* The governance dashboard computes the system health. *)
SystemHealth ==
  /\ call # <<>> /\ call[1].fn = "computeSystemHealth" /\ result = <<>>
  /\ result' = <<computeSystemHealth(call[1].input[1])>>
  /\ UNCHANGED <<storeVars, pageVars, dashVars, formVars, trustVars, signalVars, salesVars, call>>

(* The governance dashboard computes the inventory signals. *)
InventorySignals ==
  /\ call # <<>> /\ call[1].fn = "computeInventorySignals" /\ result = <<>>
  /\ result' = <<computeInventorySignals(call[1].skus)>>
  /\ UNCHANGED <<storeVars, pageVars, dashVars, formVars, trustVars, signalVars, salesVars, call>>

InitFns ==
  /\ InitStore
  /\ InitPage
  /\ call \in {<<[fn |-> "computeSystemHealth", input |-> <<i>>, skus |-> <<>>]>> :
                 i \in SystemHealthInputs}
              \cup {<<[fn |-> "computeInventorySignals", input |-> <<>>, skus |-> i]>> :
                      i \in SKUInputs}
  /\ result = <<>>
  /\ InitDashIdle /\ InitFormIdle /\ InitTrustIdle /\ InitSignalsIdle /\ InitSalesIdle

NextFns == SystemHealth \/ InventorySignals

SpecFns == InitFns /\ [][NextFns]_vars

(* ------------------------------------------------------------------------ *)
(* The close form of src/unnamed/part_000 while the operator edits it: the  *)
(* inventory, the restock checkboxes, the restock cost and the cash sales.  *)
(* restockSelections is kept as the set of its keys and the set of those    *)
(* that are true.                                                           *)
(* ------------------------------------------------------------------------ *)

CandidateKeys(cands) == {cands[i].key : i \in 1..Len(cands)}

\* The restockSelections effect: next[key] = prev[key] ?? true for the keys
\* of the candidates.
setRestockSelections(prev, cands) ==
  [keys |-> CandidateKeys(cands),
   on |-> {k \in CandidateKeys(cands) : k \in prev.keys => k \in prev.on}]

\* restockSelections as the record the render reads.
SelectionsOf(sel, cands) == [k \in CandidateKeys(cands) |-> k \in sel.on]

\* A restockSkus that takes every candidate, checked or not.
restockSkusOf_all(f, cands) == CandidateKeys(cands)

\* restockSkus of the form as rendered.
restockSkusOf(f, cands) == restockSkus(cands, SelectionsOf(f.restockSelections, cands))

\* The CloseData the Finalize Day button passes to onSubmit.
CloseDataOf(f, cands) ==
  [cash |-> f.cash, mobile |-> f.mobile, closingCash |-> f.closingCash,
   restockCash |-> f.restockCash, restockSkus |-> restockSkusOf(f, cands)]

\* The keys the operator still edits, and what is typed or chosen for them.
EditedKey == {"oil5", "oil1", "spaghetti"}
Typed(key) == IF key = "spaghetti" THEN {"OUT", "LOW", "IN"} ELSE {"", "1", "2"}
CashTyped == {"1", "-1"}

\* The open data of the depot, and the form once the quantities of the other
\* keys are typed.
OpenDataOfClose ==
  [cash |-> "2",
   inventory |-> [k \in InventoryKey |-> IF k = "spaghetti" THEN "LOW" ELSE "1"]]

InitialCloseForm ==
  [cash |-> "", mobile |-> "1", closingCash |-> "3", restockCash |-> "",
   inventory |-> [k \in InventoryKey |->
                    IF k = "spaghetti" THEN "IN" ELSE IF k \in EditedKey THEN "" ELSE "1"],
   open |-> OpenDataOfClose,
   restockSelections |-> [keys |-> {"spaghetti"}, on |-> {"spaghetti"}]]

(* An inventory input or the spaghetti select changes; the form renders and *)
(* the restockSelections effect runs.                                       *)
setInventory(key, v) ==
  /\ inserted = <<>>
  /\ form.inventory[key] # v
  /\ LET inv == [form.inventory EXCEPT ![key] = v]
         cands == restockCandidates(form.open.inventory, inv)
     IN /\ form' = [form EXCEPT !.inventory = inv,
                                !.restockSelections = setRestockSelections(@, cands)]
        /\ candidates' = <<cands>>
  /\ UNCHANGED <<storeVars, pageVars, dashVars, inserted, trustVars, signalVars, salesVars, fnVars>>

(* A restock checkbox changes. *)
ToggleRestock(key, checked) ==
  /\ inserted = <<>>
  /\ key \in CandidateKeys(candidates[1])
  /\ (key \in form.restockSelections.on) # checked
  /\ form' = [form EXCEPT !.restockSelections =
                [keys |-> @.keys \cup {key},
                 on |-> IF checked THEN @.on \cup {key} ELSE @.on \ {key}]]
  /\ UNCHANGED <<storeVars, pageVars, dashVars, candidates, inserted, trustVars, signalVars, salesVars, fnVars>>

(* The Total Restock Cost input, shown while a SKU is selected. *)
setRestockCash(v) ==
  /\ inserted = <<>>
  /\ restockSkusOf(form, candidates[1]) # {}
  /\ form.restockCash # v
  /\ form' = [form EXCEPT !.restockCash = v]
  /\ UNCHANGED <<storeVars, pageVars, dashVars, candidates, inserted, trustVars, signalVars, salesVars, fnVars>>

(* The Cash Sales input. *)
setCash(v) ==
  /\ inserted = <<>>
  /\ form.cash # v
  /\ form' = [form EXCEPT !.cash = v]
  /\ UNCHANGED <<storeVars, pageVars, dashVars, candidates, inserted, trustVars, signalVars, salesVars, fnVars>>

(* The Finalize Day button: the row onSubmit inserts, with the expected     *)
(* cash the form shows.                                                     *)
FinalizeEdited ==
  /\ inserted = <<>>
  /\ InventoryFilled(form.inventory)
  /\ CloseFormValid(CloseDataOf(form, candidates[1]))
  /\ inserted' = <<[page |-> "src/unnamed/part_000",
                    row |-> CloseInsertRow(DEPOTS[1], OPERATORS[1], BusinessDate,
                                           CloseDataOf(form, candidates[1])),
                    expectedCash |-> CloseFormExpectedCash(form.open,
                                                           CloseDataOf(form, candidates[1]))]>>
  /\ UNCHANGED <<storeVars, pageVars, dashVars, form, candidates, trustVars, signalVars, salesVars, fnVars>>

InitClose ==
  /\ InitStore
  /\ InitPage
  /\ form = InitialCloseForm
  /\ candidates = <<restockCandidates(form.open.inventory, form.inventory)>>
  /\ inserted = <<>>
  /\ InitDashIdle /\ InitTrustIdle /\ InitSignalsIdle /\ InitSalesIdle /\ InitFnIdle

NextClose ==
  \/ \E key \in EditedKey : \E v \in Typed(key) : setInventory(key, v)
  \/ \E key \in EditedKey : \E checked \in BOOLEAN : ToggleRestock(key, checked)
  \/ \E v \in {"", "1"} : setRestockCash(v)
  \/ \E v \in CashTyped : setCash(v)
  \/ FinalizeEdited

SpecClose == InitClose /\ [][NextClose]_vars

Init ==
  /\ InitStore
  /\ InitPage
  /\ InitDashIdle /\ InitFormIdle /\ InitTrustIdle /\ InitSignalsIdle /\ InitSalesIdle /\ InitFnIdle

Next ==
  \/ \E d \in Depot : SelectDepot(d)
  \/ \E o \in Operator : SelectOperator(o)
  \/ ActionButton
  \/ backToLogin
  \/ CloseDepotButton
  \/ \E data \in OpenFormData : SubmitOpen(data)
  \/ \E data \in CloseFormData : SubmitClose(data)
  \/ \E i \in 1..MaxInflight : OpenSubmitted(i)
  \/ \E i \in 1..MaxInflight : CloseSubmitted(i)
  \/ \E i \in 1..MaxInflight : OpenDataLoaded(i)
  \/ LoaderRead
  \/ LoaderSet
  \/ \E d \in Depot, o \in Operator, data \in OpenFormData : OtherOpen(d, o, data)
  \/ \E d \in Depot, o \in Operator, data \in CloseFormData : OtherClose(d, o, data)

Spec == Init /\ [][Next]_vars


(* ---------------------- properties of the lifecycle -------------------- *)
HasOpen(k) == Len(depot_day_open[k]) > 0
HasClose(k) == Len(depot_day_close[k]) > 0

\* The state the operator page resolves for key k from the store as it is.
PageState(k) ==
  resolveDepotState(maybeSingle(depot_day_open, k[1], k[2]),
                    maybeSingle(depot_day_close, k[1], k[2]))

Rank(st) == CASE st = "CLOSED" -> 2 [] st \in {"OPENED", "OPEN"} -> 1 [] OTHER -> 0

\* C1: whatever inserts the operators' pages send for a (depot, business
\* date), in any order and however often one page repeats its submission, the
\* store holds at most one open record and at most one close record of the key.
C1_OneRecordPerKey ==
  \A k \in Key : Len(depot_day_open[k]) <= 1 /\ Len(depot_day_close[k]) <= 1

\* C1 witness: one page has submitted the same opening twice before either
\* answer was handled; the first was stored, the second rejected as a duplicate.
C1_Witness ==
  /\ Len(inflight) = 2
  /\ inflight[1].kind = "insertOpen" /\ inflight[1].error = Null
  /\ inflight[2].kind = "insertOpen" /\ inflight[2].error = UNIQUE_VIOLATION
  /\ inflight[1].depot = inflight[2].depot
  /\ Len(depot_day_open[<<inflight[1].depot, inflight[1].date>>]) = 1

\* C2: a close record exists for a key only if an open record exists for it,
\* and a step taken while the key has no open record creates no close record
\* for it (the insert is rejected).
C2_CloseNeedsOpen ==
  [][\A k \in Key :
       /\ Len(depot_day_close'[k]) > 0 => Len(depot_day_open'[k]) > 0
       /\ ~HasOpen(k) => depot_day_close'[k] = <<>>]_vars

\* C2 witness: the page's close insert for a depot nobody opened came back
\* with the referential violation, and the key has no close record.
C2_Witness ==
  \E i \in 1..Len(inflight) :
    /\ inflight[i].kind = "insertClose"
    /\ inflight[i].error = FOREIGN_KEY_VIOLATION
    /\ ~HasOpen(<<inflight[i].depot, inflight[i].date>>)
    /\ ~HasClose(<<inflight[i].depot, inflight[i].date>>)

\* C3: for every key, the operator page and the executive dashboard resolve
\* CLOSED when a close record exists, else OPENED (OPEN on the dashboard) when
\* an open record exists, else NOT_OPENED; every combination of present and
\* absent rows resolves to one of the three states; and a state the running
\* loader has resolved is never ahead of the records.
C3_StateRule ==
  /\ \A k \in Key :
       /\ PageState(k) = IF HasClose(k) THEN "CLOSED"
                         ELSE IF HasOpen(k) THEN "OPENED" ELSE "NOT_OPENED"
       /\ currentStatus(DashboardRecord(k)) =
            IF HasClose(k) THEN "CLOSED"
            ELSE IF HasOpen(k) THEN "OPEN" ELSE "NOT_OPENED"
  /\ \A o \in {<<>>, <<"row">>}, c \in {<<>>, <<"row">>} :
       resolveDepotState(o, c) \in {"NOT_OPENED", "OPENED", "CLOSED"}
  /\ loader # <<>> =>
       \A d \in Depot :
         Rank(loader[1].states[d]) <= Rank(PageState(<<d, loader[1].date>>))

\* C3 witness: one depot is opened and closed, the other opened only, and the
\* loader has resolved both.
C3_Witness ==
  /\ HasOpen(<<DEPOTS[1], BusinessDate>>) /\ HasClose(<<DEPOTS[1], BusinessDate>>)
  /\ HasOpen(<<DEPOTS[2], BusinessDate>>) /\ ~HasClose(<<DEPOTS[2], BusinessDate>>)
  /\ loader # <<>> /\ loader[1].phase = "set"
  /\ loader[1].states[DEPOTS[1]] = "CLOSED"
  /\ loader[1].states[DEPOTS[2]] = "OPENED"

\* C5: no step changes or removes an open or close record that exists, and
\* the state derived for a key never moves back.
C5_RecordsImmutable ==
  [][\A k \in Key :
       /\ HasOpen(k) => depot_day_open'[k] = depot_day_open[k]
       /\ HasClose(k) => depot_day_close'[k] = depot_day_close[k]
       /\ Rank(PageState(k)) <=
            Rank(resolveDepotState(maybeSingle(depot_day_open', k[1], k[2]),
                                   maybeSingle(depot_day_close', k[1], k[2])))]_vars

\* C5 witness: the page's close insert carrying other amounts than the close
\* record of its key has been answered, and the record is as it was stored.
C5_Witness ==
  \E i \in 1..Len(inflight) :
    LET k == <<inflight[i].depot, inflight[i].date>>
    IN /\ inflight[i].kind = "insertClose"
       /\ inflight[i].error = UNIQUE_VIOLATION
       /\ Len(depot_day_close[k]) = 1
       /\ depot_day_close[k][1] # inflight[i].row[1]
       /\ PageState(k) = "CLOSED"

\* C10: for a close record stored with restock cash r, the executive
\* dashboard's expected cash of the day is opening + cash sales - r.
C10_RestockSubtracted ==
  \A k \in Key :
    HasOpen(k) /\ HasClose(k) =>
      getExpectedCash(DashboardRecord(k)[1]) =
        depot_day_open[k][1].opening_cash_cfa
          + depot_day_close[k][1].cash_sales_total_cfa
          - depot_day_close[k][1].restock_cash_used

(* ------------------ properties of the cash reconciliation -------------- *)
\* A closed day's record with the given amounts.
Day(opening, sales, restock, closing) ==
  [depot_id |-> DEPOTS[1], business_date |-> BusinessDate,
   opening_cash_cfa |-> opening, closing_cash_physical |-> closing,
   cash_sales_cfa |-> sales, mobile_sales_cfa |-> 0,
   restock_cash_used |-> restock,
   operator_open |-> OPERATORS[1], operator_close |-> OPERATORS[1]]

\* C4: a record with a closing operator and no opening operator, like a close
\* row read without an open row, is never reported as CLOSED by the executive
\* dashboard's status cards nor by the operator page.
C4_InconsistentNeverClosed ==
  /\ resolveDepotState(<<>>, <<"row">>) # "CLOSED"
  /\ (review # <<>> /\ ev.operator_close # Null /\ ev.operator_open = Null)
       => review[1].status # "CLOSED"

\* C6: the expected cash the executive dashboard reviews, and the one the
\* close form shows, is opening cash + cash sales - restock cash used, the
\* same whatever the mobile sales are, and not negative when the restock is
\* at most opening + cash sales.
C6_ExpectedCash ==
  /\ review # <<>> =>
       /\ review[1].cash.expected =
            ev.opening_cash_cfa + ev.cash_sales_cfa - ev.restock_cash_used
       /\ \A m \in 0..MaxMobile :
            getExpectedCash([ev EXCEPT !.mobile_sales_cfa = m]) = review[1].cash.expected
       /\ ev.restock_cash_used <= ev.opening_cash_cfa + ev.cash_sales_cfa
            => review[1].cash.expected >= 0
  /\ \A c \in OpenCashTyped, data \in CloseFormData :
       /\ CloseFormExpectedCash([cash |-> c], data) =
            Number(c) + Number(data.cash)
              - (IF data.restockSkus # {} THEN Number(data.restockCash) ELSE 0)
       /\ CloseFormExpectedCash([cash |-> c], [data EXCEPT !.mobile = ""]) =
            CloseFormExpectedCash([cash |-> c], data)

\* C6 witness: a reviewed day with mobile sales and a restock paid from the
\* cash at hand.
C6_Witness ==
  /\ review # <<>>
  /\ ev.mobile_sales_cfa > 0 /\ ev.cash_sales_cfa > 0 /\ ev.restock_cash_used > 0
  /\ ev.restock_cash_used <= ev.opening_cash_cfa + ev.cash_sales_cfa
  /\ review[1].cash.expected > 0

\* C7: the diff of a cash review is the signed difference actual - expected,
\* negative when the closing count is below the expected cash (opening 100000,
\* cash sales 50000, no restock, closing 140000: diff -10000).
C7_SignedDiff ==
  review # <<>> =>
    /\ review[1].cash.diff = review[1].cash.actual - review[1].cash.expected
    /\ getCashReview(Day(100000, 50000, 0, 140000)).diff = 0 - 10000

C9_SameReview ==
  review # <<>> =>
    /\ review[1].governance = review[1].cash.needsReview
    /\ review[1].cashIssue = review[1].cash.needsReview

(* ----------------------- properties of the close form ------------------ *)
\* C11: the closing cash stored on a close record is the closing cash the
\* operator counted, whatever the cash sales are: a close that differs only
\* in the counted closing cash stores another closing cash.
C11_ClosingCashIsCounted ==
  inserted # <<>> =>
    /\ inserted[1].row.closing_cash_cfa = Number(form.closingCash)
    /\ \A f \in CloseForms :
         (/\ [f EXCEPT !.closingCash = form.closingCash] = form
          /\ f.closingCash # form.closingCash)
         => (IF inserted[1].page = "src/app/page.tsx"
             THEN CloseInsertRowPage(DEPOTS[1], OPERATORS[1], BusinessDate, f).closing_cash_cfa
             ELSE Number(f.closingCash)) # inserted[1].row.closing_cash_cfa

\* C20: a SKU is among the restock candidates exactly when its closing value
\* is above its opening value: a greater quantity for the numeric SKUs, a
\* higher status in OUT < LOW < IN for spaghetti.
C20_RestockCandidates ==
  candidates # <<>> =>
    LET keys == {candidates[1][i].key : i \in 1..Len(candidates[1])}
        OrderOf(st) == CASE st = "OUT" -> 0 [] st = "LOW" -> 1 [] st = "IN" -> 2
    IN /\ \A k \in NumericKey :
            k \in keys <=> Number(form.inventory[k]) > Number(form.open.inventory[k])
       /\ "spaghetti" \in keys <=>
            OrderOf(form.inventory["spaghetti"]) > OrderOf(form.open.inventory["spaghetti"])
       /\ Cardinality(keys) = Len(candidates[1])

\* C20 witness: a rendered form with a numeric SKU that went up, one that
\* stayed, one that went down, and a spaghetti status that stayed.
C20_Witness ==
  /\ candidates # <<>>
  /\ form.inventory["oil5"] = "1" /\ form.open.inventory["oil5"] = "0"
  /\ form.inventory["oil1"] = "1" /\ form.open.inventory["oil1"] = "1"
  /\ form.inventory["oil25"] = "0" /\ form.open.inventory["oil25"] = "1"
  /\ form.inventory["spaghetti"] = "LOW" /\ form.open.inventory["spaghetti"] = "LOW"
  /\ Len(candidates[1]) = 1

(* ------------------- properties of the compliance signals -------------- *)
\* C12: computeTrustScore is max(0, min(100, 100 - 5 lateOpens - 10 missedCloses
\* - 25 varianceDays - inactiveDays)): 100 for zero counts, 0 when the
\* penalties exceed 100 points, always an integer of 0..100.
C12_TrustScore ==
  trustScore # <<>> =>
    LET penalty == 5 * trustInput.lateOpens + 10 * trustInput.missedCloses
                     + 25 * trustInput.varianceDays + trustInput.inactiveDays
    IN /\ trustScore[1] \in 0..100
       /\ penalty = 0 => trustScore[1] = 100
       /\ penalty > 100 => trustScore[1] = 0
       /\ penalty <= 100 => trustScore[1] = 100 - penalty

\* C12 witness: five variance days and nothing else (125 points) score 0.
C12_Witness ==
  /\ trustScore = <<0>>
  /\ trustInput = [lateOpens |-> 0, missedCloses |-> 0, varianceDays |-> 5, inactiveDays |-> 0]

Reverse(es) == [i \in 1..Len(es) |-> es[Len(es) + 1 - i]]

\* The events more recent than every event that is opened late, not closed or
\* has variance.
EventsSinceLastViolation(es) ==
  {i \in 1..Len(es) : \A j \in 1..Len(es) : ~isClean(es[j]) => es[i].date > es[j].date}

\* C13: whatever the order the events are given in, consecutiveCleanDays is
\* the number of events, from the most recent date back, before the first
\* that is opened late, not closed or has variance, and status is CLEAN
\* exactly when that number is at least 7.
C13_CleanStreak ==
  signals # <<>> =>
    \A es \in {signals[1].events, Reverse(signals[1].events)} :
      LET c == computeDepotCompliance([depotId |-> DEPOTS[1], events |-> es], 0)
      IN /\ c.consecutiveCleanDays = Cardinality(EventsSinceLastViolation(es))
         /\ c.status = IF Cardinality(EventsSinceLastViolation(es)) >= 7
                       THEN "CLEAN" ELSE "NOT_CLEAN"
         /\ c.consecutiveCleanDays = signals[1].compliance.consecutiveCleanDays

\* C13 witness: two clean days, then a day with a violation, then four weeks
\* of clean days that no longer count.
C13_Witness ==
  /\ signals # <<>>
  /\ signals[1].compliance.consecutiveCleanDays = 2
  /\ signals[1].compliance.status = "NOT_CLEAN"
  /\ Len(signals[1].events) > 28
  /\ ~isClean(signals[1].events[3])

\* C14: a depot with fewer than 30 recorded days, all of them clean, has a
\* trust score of 100, and its clean streak is the number of its events.
C14_NoPenaltyForMissingHistory ==
  (signals # <<>> /\ \A i \in 1..Len(signals[1].events) : isClean(signals[1].events[i]))
    => /\ signals[1].trustScore = 100
       /\ signals[1].compliance.consecutiveCleanDays = Len(signals[1].events)

\* C15: an open counts as late exactly when its open time is after 08:00.
C15_LateAfterEight ==
  signals # <<>> =>
    \A i \in 1..Len(signals[1].events) :
      LET openedAt == history.open[i].opened_at[1]
      IN signals[1].events[i].openedLate <=> (openedAt.hours * 60 + openedAt.minutes > 8 * 60)

\* C16: every event that costs the depot points is dated within the 30 days
\* ending at the scoring date.
C16_PenaltiesWithinWindow ==
  signals # <<>> =>
    \A i \in 1..Len(signals[1].events) :
      ~isClean(signals[1].events[i]) => signals[1].events[i].date > latestDate - 30

\* C17: the inactive-day count is in 0..30, every missed close is one of the
\* days with an event, and the inactive days are the days of the 30 without
\* one, so that no day counts as both.
C17_MissedOrInactive ==
  signals # <<>> =>
    LET t == signals[1].trustInput
        missed == {i \in 1..Len(signals[1].events) : ~signals[1].events[i].closed}
    IN /\ t.inactiveDays \in 0..30
       /\ t.missedCloses = Cardinality(missed)
       /\ t.inactiveDays + Len(signals[1].events) = 30
       /\ t.missedCloses + t.inactiveDays <= 30

\* C17 witness: a depot with more than 30 recorded days, one of them not
\* closed, and no inactive day.
C17_Witness ==
  /\ signals # <<>>
  /\ Len(history.state) > 30
  /\ signals[1].trustInput.inactiveDays = 0
  /\ signals[1].trustInput.missedCloses > 0

(* ------------------------------------------------------------------------ *)
(* Sales aggregates                                                         *)
(* ------------------------------------------------------------------------ *)

RECURSIVE SumOfPoints(_)
SumOfPoints(P) ==
  IF P = {} THEN 0
  ELSE LET p == CHOOSE q \in P : TRUE IN p.sales + SumOfPoints(P \ {p})

\* The points of P that are no later than p and have fewer than N points
\* between them and p: the min(k, N) most recent points up to the k-th.
MostRecent(P, p, N) ==
  {q \in P : /\ q.date <= p.date
             /\ Cardinality({r \in P : q.date < r.date /\ r.date <= p.date}) < N}

Points(s) == {[date |-> s[i].date, sales |-> s[i].sales] : i \in 1..Len(s)}

\* avg is the arithmetic mean of the min(k, N) most recent points of P up to p.
IsRollingMean(avg, P, p, N) ==
  /\ avg.den = Min(Cardinality({q \in P : q.date <= p.date}), N)
  /\ avg.den = Cardinality(MostRecent(P, p, N))
  /\ avg.num = SumOfPoints(MostRecent(P, p, N))

\* C18: the rolling average attached to the k-th point in ascending date
\* order is the arithmetic mean of the min(k, N) most recent points up to and
\* including it, with N = 5 for rolling5DayAvgByDate and N = 7 for the chart
\* of computeSalesMomentum; over a series whose points all have the value V it
\* is V at every point.
C18_RollingAverage ==
  (metrics # <<>> /\ metrics.chart # <<>>) =>
    LET c == metrics.chart[1]
        P5 == Points(c.allDailyRecords)
        P7 == Points(c.dailySales)
    IN /\ \A p \in P5 : IsRollingMean(c.rolling5DayAvgByDate[p.date], P5, p, 5)
       /\ Len(c.chartData) = Cardinality(P7)
       /\ \A i \in 1..Len(c.chartData) :
            LET p == [date |-> c.chartData[i].date, sales |-> c.chartData[i].sales]
            IN /\ p \in P7
               /\ Cardinality({q \in P7 : q.date <= p.date}) = i
               /\ IsRollingMean(c.chartData[i].rollingAvg, P7, p, 7)
       /\ \A V \in 0..2 :
            /\ (\A p \in P5 : p.sales = V) =>
                 \A p \in P5 : c.rolling5DayAvgByDate[p.date].num
                                 = V * c.rolling5DayAvgByDate[p.date].den
            /\ (\A p \in P7 : p.sales = V) =>
                 \A i \in 1..Len(c.chartData) :
                   c.chartData[i].rollingAvg.num = V * c.chartData[i].rollingAvg.den

\* C18 witness: eight closed days whose sales are not all the same, so that
\* both windows have dropped their oldest point, and the last 7-day average
\* differs from the average of all eight.
C18_Witness ==
  /\ metrics # <<>> /\ metrics.chart # <<>>
  /\ Len(metrics.chart[1].chartData) = 8
  /\ metrics.chart[1].chartData[8].rollingAvg.den = 7
  /\ metrics.chart[1].chartData[1].sales = 2
  /\ metrics.chart[1].chartData[8].rollingAvg.num = 0
  /\ metrics.chart[1].rolling5DayAvgByDate[metrics.chart[1].chartData[8].date].den = 5

ClosedIn(data, first, last) ==
  {i \in 1..Len(data) : /\ data[i].business_date >= first
                        /\ data[i].business_date <= last
                        /\ data[i].operator_close # Null}

RECURSIVE SalesOfRows(_, _)
SalesOfRows(data, I) ==
  IF I = {} THEN 0
  ELSE LET i == CHOOSE j \in I : TRUE
       IN data[i].cash_sales_cfa + data[i].mobile_sales_cfa + SalesOfRows(data, I \ {i})

\* C19: the month-over-month change is null whenever the previous month has no
\* closed record or its sales sum to zero, and (current - previous) / previous
\* * 100 otherwise; with no data at all the month metrics are all zero and the
\* change is null.
C19_MonthOverMonth ==
  (metrics # <<>> /\ metrics.month # <<>>) =>
    LET data == salesData[1]
        mm == metrics.month[1]
        prevRows == ClosedIn(data, firstDayOfLastMonth, lastDayOfLastMonth)
        previous == SalesOfRows(data, prevRows)
        current == SalesOfRows(data, {i \in 1..Len(data) :
                                        /\ data[i].business_date >= firstDayOfMonth
                                        /\ data[i].operator_close # Null})
    IN /\ (prevRows = {} \/ previous = 0) => mm.monthOverMonthChange = <<>>
       /\ (prevRows # {} /\ previous # 0) =>
            /\ mm.monthOverMonthChange # <<>>
            /\ mm.monthOverMonthChange[1].den = previous
            /\ mm.monthOverMonthChange[1].num = (current - previous) * 100
       /\ Len(data) = 0 =>
            /\ mm.thisMonthMetrics.totalSales = 0
            /\ mm.thisMonthMetrics.completedDays = 0
            /\ mm.thisMonthMetrics.avgSalesPerDay.num = 0
            /\ mm.thisMonthMetrics.cashReviewDays = 0
            /\ mm.monthOverMonthChange = <<>>

\* C19 witness: the previous month has closed records and all of them sold
\* nothing, while this month has sales; the change is null.
C19_Witness ==
  /\ metrics # <<>> /\ metrics.month # <<>>
  /\ metrics.month[1].previousMonthSales = <<0>>
  /\ metrics.month[1].thisMonthMetrics.totalSales > 0
  /\ metrics.month[1].monthOverMonthChange = <<>>

(* ------------------------------------------------------------------------ *)
(* Signal functions                                                         *)
(* ------------------------------------------------------------------------ *)

\* C23: computeSystemHealth returns RED exactly when there is a cash variance
\* or fewer depots are closed than expected, otherwise AMBER exactly when an
\* open was missed, otherwise GREEN; GREEN therefore means every expected
\* depot closed, no cash variance and no missed open.
C23_SystemHealth ==
  (result # <<>> /\ call[1].fn = "computeSystemHealth") =>
    LET input == call[1].input[1]
        critical == input.cashVarianceCount > 0 \/ input.closedDepots < input.expectedDepots
    IN /\ result[1] \in {"RED", "AMBER", "GREEN"}
       /\ result[1] = "RED" <=> critical
       /\ result[1] = "AMBER" <=> (~critical /\ input.missedOpens > 0)
       /\ result[1] = "GREEN" =>
            /\ input.closedDepots >= input.expectedDepots
            /\ input.cashVarianceCount = 0
            /\ input.missedOpens = 0

\* C23 witness: a cash variance together with a missed open is RED.
C23_Witness ==
  /\ call # <<>> /\ call[1].fn = "computeSystemHealth"
  /\ result = <<"RED">>
  /\ call[1].input[1].missedOpens > 0
  /\ call[1].input[1].cashVarianceCount > 0
  /\ call[1].input[1].closedDepots = call[1].input[1].expectedDepots

\* C24: computeInventorySignals returns at most 5 signals, in non-increasing
\* order of cash impact |unitsDelta| * estimatedUnitPrice, and every input SKU
\* it leaves out has a cash impact no greater than that of every SKU returned.
C24_TopFive ==
  (result # <<>> /\ call[1].fn = "computeInventorySignals") =>
    LET skus == call[1].skus
        out == result[1]
        impact(i) == Abs(skus[i].unitsDelta) * skus[i].estimatedUnitPrice
        returned == {i \in 1..Len(skus) : \E j \in 1..Len(out) : out[j].sku = skus[i].sku}
    IN /\ Len(out) <= 5
       /\ Len(out) = Min(5, Len(skus))
       /\ Cardinality(returned) = Len(out)
       /\ \A j \in 1..Len(out) : \E i \in returned :
            out[j].sku = skus[i].sku /\ out[j].cashImpact = impact(i)
       /\ \A j \in 1..(Len(out) - 1) : out[j].cashImpact >= out[j + 1].cashImpact
       /\ \A i \in (1..Len(skus)) \ returned : \A j \in 1..Len(out) :
            impact(i) <= out[j].cashImpact

\* C24 witness: six SKUs, the one with the largest cash impact given last; it
\* is returned first and a smaller one is left out.
C24_Witness ==
  /\ result # <<>> /\ call[1].fn = "computeInventorySignals"
  /\ Len(call[1].skus) = 6
  /\ Len(result[1]) = 5
  /\ result[1][1].sku = call[1].skus[6].sku
  /\ result[1][1].cashImpact = 6
  /\ result[1][5].cashImpact = 2
  /\ \E i \in 1..5 : Abs(call[1].skus[i].unitsDelta) * call[1].skus[i].estimatedUnitPrice = 1

\* C30: growthVsPriorWeek of computeSalesMomentum compares the mean of the 7
\* most recent daily points with the mean of the 7 points before them; a
\* series of fewer than 8 points has no prior week and gives growth 0 and
\* trend FLAT, never a decline.
C30_NoPriorWeekIsFlat ==
  (metrics # <<>> /\ metrics.chart # <<>>) =>
    LET c == metrics.chart[1]
    IN Len(c.dailySales) < 8 =>
         /\ c.salesMomentum.growthVsPriorWeek = 0
         /\ c.salesMomentum.trend = "FLAT"

(* ------------------------------------------------------------------------ *)
(* The close form while it is edited                                        *)
(* ------------------------------------------------------------------------ *)

\* The SKUs whose closing value is above their opening value.
Increased(f) ==
  {k \in InventoryKey :
     IF k = "spaghetti"
     THEN statusRank(f.inventory[k]) > statusRank(f.open.inventory[k])
     ELSE Number(f.inventory[k]) > Number(f.open.inventory[k])}

\* C21: after any sequence of inventory edits and checkbox toggles, the
\* restock SKUs submitted are among the candidates detected now that are
\* checked, and when none is checked the restock cash written to the close
\* row and subtracted from the expected cash is 0 whatever cost was typed.
C21_OnlyConfirmedRestock ==
  /\ form # <<>> /\ candidates # <<>> /\ inserted = <<>> /\ "restockSelections" \in DOMAIN form
       => /\ CandidateKeys(candidates[1]) = Increased(form)
          /\ form.restockSelections.keys = Increased(form)
  /\ (inserted # <<>> /\ "expectedCash" \in DOMAIN inserted[1]) =>
       /\ inserted[1].row.restock_skus \subseteq Increased(form) \cap form.restockSelections.on
       /\ Increased(form) \cap form.restockSelections.on \subseteq inserted[1].row.restock_skus
       /\ Increased(form) \cap form.restockSelections.on = {} =>
            /\ inserted[1].row.restock_cash_used = 0
            /\ inserted[1].expectedCash = Number(form.open.cash) + Number(form.cash)

\* C21 witness: a restock cost was typed, then every candidate was unchecked
\* (one is still detected), and the day was finalized.
C21_Witness ==
  /\ inserted # <<>> /\ "expectedCash" \in DOMAIN inserted[1]
  /\ form.restockCash = "1"
  /\ Increased(form) # {}
  /\ Increased(form) \cap form.restockSelections.on = {}
  /\ inserted[1].row.restock_cash_used = 0

\* C22: a malformed amount (missing, negative or not finite) is rejected with
\* a validation error and never becomes a stored amount or a zero: no row the
\* close form submits carries a negative amount.
C22_MalformedRejected ==
  (inserted # <<>> /\ "expectedCash" \in DOMAIN inserted[1]) =>
    /\ form.cash \notin {"", "-1"}
    /\ inserted[1].row.cash_sales_total_cfa >= 0

(* ------------------------------------------------------------------------ *)
(* The operator page: rejected inserts, races and the screen machine        *)
(* ------------------------------------------------------------------------ *)

\* The step sends an insert: the request it puts in flight, <<>> otherwise.
Submitted ==
  IF /\ Len(inflight') = Len(inflight) + 1
     /\ inflight'[Len(inflight')].kind \in {"insertOpen", "insertClose"}
  THEN <<inflight'[Len(inflight')]>> ELSE <<>>

\* The page shows the status or the close screen.
ShowsStatusOrClose ==
  screen \in {"status", "close"} /\ openData # <<>> /\ depot # Null /\ operator # Null

\* C25: an open insert rejected with 23505 writes nothing; the page then marks
\* the depot OPENED, loads the open record that exists and moves to the status
\* screen. A close insert rejected with 23505 writes nothing; the page marks
\* the depot CLOSED and moves to the final screen.
C25_DuplicateRejected ==
  [][/\ (Submitted # <<>> /\ Submitted[1].error = UNIQUE_VIOLATION) => UNCHANGED storeVars
     /\ \A i \in 1..Len(inflight) :
          LET req == inflight[i]
              k == <<req.depot, req.date>>
          IN /\ (req.kind = "insertOpen" /\ req.error = UNIQUE_VIOLATION /\ OpenSubmitted(i)) =>
                  /\ UNCHANGED storeVars
                  /\ depotStates'[req.depot] = "OPENED"
                  /\ inflight'[i].kind = "selectOpen"
                  /\ inflight'[i].depot = req.depot
                  /\ inflight'[i].then = "status"
                  /\ inflight'[i].result = depot_day_open[k]
                  /\ Len(depot_day_open[k]) = 1
             /\ (req.kind = "selectOpen" /\ req.then = "status" /\ OpenDataLoaded(i)) =>
                  /\ screen' = "status"
                  /\ openData' = <<OpenDataOfRow(depot_day_open[k][1])>>
             /\ (req.kind = "insertClose" /\ req.error = UNIQUE_VIOLATION /\ CloseSubmitted(i)) =>
                  /\ UNCHANGED storeVars
                  /\ depotStates'[req.depot] = "CLOSED"
                  /\ screen' = "final"]_vars

\* C25 witness: the page's open insert was rejected as a duplicate; the depot
\* is marked OPENED and the read of the record another page stored is under
\* way, the status screen to follow.
C25_Witness ==
  \E i \in 1..Len(inflight) :
    /\ inflight[i].kind = "selectOpen"
    /\ inflight[i].then = "status"
    /\ inflight[i].result # <<>>
    /\ depotStates[inflight[i].depot] = "OPENED"
    /\ screen = "open"

C27_OpenDataOfSelectedDepot ==
  (openData # <<>> /\ depot # Null) => openData[1].of = <<depot, BusinessDate>>

\* C28: the page's cached state of a depot is never ahead of the store: a
\* cached OPENED means an open record exists, a cached CLOSED means a close
\* record exists, and the final screen is shown for a depot only when a close
\* record of that depot and date exists.
C28_CacheNotAhead ==
  /\ \A d \in Depot :
       /\ depotStates[d] = "OPENED" => HasOpen(<<d, BusinessDate>>)
       /\ depotStates[d] = "CLOSED" => HasClose(<<d, BusinessDate>>)
  /\ (screen = "final" /\ depot # Null) => HasClose(<<depot, BusinessDate>>)

\* C29: the status and close screens are shown only while the cached state of
\* the selected depot is OPENED; no open or close insert is submitted for a
\* depot whose cached state is CLOSED; and every close insert is submitted
\* from the close screen with open data loaded.
C29_ScreenMachine ==
  [][/\ ShowsStatusOrClose' => depotStates'[depot'] = "OPENED"
     /\ Submitted # <<>> =>
          /\ depotStates[Submitted[1].depot] # "CLOSED"
          /\ Submitted[1].kind = "insertClose" => (screen = "close" /\ openData # <<>>)]_vars

====
